---------------------------- MODULE Spec2Model ----------------------------
(***************************************************************************)
(* A model of ImageSet (source/ImageSet.cpp): the file-name grammar        *)
(* (IsImage, Is2x, NameEnd, Name, FrameIndex, IsMasked), the path table    *)
(* (Add, Check), the loader (Load), the distance-field generator           *)
(* (GenerateDistances) and the hand-off to the Sprite (Upload).            *)
(*                                                                         *)
(* A std::string is a sequence of one-character strings.  C++ indices are  *)
(* 0-based: the character path[i] of the code is path[i + 1] here.         *)
(* A size_t that has wrapped below zero is held as the negative integer v  *)
(* that stands for 2^64 + v, so that "!end", "--pos" and "++i" are the     *)
(* plain integer operations and an index is in range iff 0 <= i < length.  *)
(***************************************************************************)
EXTENDS Integers, Sequences, FiniteSets, TLC

VARIABLES
    path,       \* the argument of the last call of a path function
    ret,        \* what that call did: [fn, val, oob, wrapped, crashed]
    name,       \* ImageSet::name
    paths,      \* ImageSet::paths[2]; paths[0] here is <<std, dbl>>[1]
    buffer,     \* ImageSet::buffer[2]
    masks,      \* ImageSet::masks
    distances,  \* ImageSet::distances
    sprite,     \* the Sprite that Upload was last called with
    reads,      \* the calls of the last Load since the last Upload, in order
    cerr,       \* the lines the last Check wrote to std::cerr
    cycle       \* where the ImageSet is in its cycle of Load and Upload:
                \* "new" (no Load yet), "uploaded" (no Load since Upload),
                \* "loaded1" / "loaded2" (one Load, made when "new" /
                \* "uploaded", and no Add since), "reloaded" (a Load
                \* made in any other state, and no Add since), "mixed"
                \* (an Add since the last Load)

vars == <<path, ret, name, paths, buffer, masks, distances, sprite, reads, cerr, cycle>>

imageSetVars == <<name, paths, buffer, masks, distances, sprite, reads, cerr, cycle>>

(***************************************************************************)
(* Bounds of the model.                                                    *)
(***************************************************************************)
\* Longest sequence of characters put in front of ['@2x'] <ext>.
MaxStem == 3
\* Longest path that has no extension appended.
MaxRaw == 3

(***************************************************************************)
(* Characters.                                                             *)
(***************************************************************************)
Digits == <<"0", "1", "2", "3", "4", "5", "6", "7", "8", "9">>

IsDigit(c) == \E k \in 1..10 : Digits[k] = c

\* path[i] - '0'
DigitVal(c) == (CHOOSE k \in 1..10 : Digits[k] = c) - 1

\* The terminator that std::string::operator[] yields at index length().
NUL == "\\0"

\* What a read outside the string may find; "crash" is the read faulting.
\* A digit is left out: the backward scan would then go on to the next
\* out-of-range character, and ends in one of these outcomes all the same.
Garbage == {"-", "?", "crash"}

\* The characters the paths are made of.
Alphabet == {"a", "7", "2", "-", "~", "+", "=", "@"}

Mark2x == <<"@", "2", "x">>

\* The extensions IsImage accepts, and one it does not.
Exts == {<<".", "p", "n", "g">>, <<".", "j", "p", "g">>,
         <<".", "P", "N", "G">>, <<".", "J", "P", "G">>}

OtherExts == {<<".", "P", "n", "g">>}

StringsUpTo(n) == UNION {[1..k -> Alphabet] : k \in 0..n}

\* The paths the path functions are called with: short raw strings (the
\* empty path among them), and stems followed by an optional @2x and an
\* extension.
PathSet ==
    StringsUpTo(MaxRaw) \cup
    {s \o m \o e : s \in StringsUpTo(MaxStem), m \in {<<>>, Mark2x},
                   e \in Exts \cup OtherExts}

\* path[i], reading g where the index is outside the string.
CharAt(p, i, g) ==
    IF 0 <= i /\ i < Len(p) THEN p[i + 1]
    ELSE IF i = Len(p) THEN NUL
    ELSE g

\* Whether reading path[i] is a read outside [0, length].
OutOfRange(p, i) == i < 0 \/ i > Len(p)

\* path.substr(pos, n): n is cut down to what the string holds; a wrapped
\* n (negative here) is larger than any length.
Substr(p, pos, n) ==
    LET cnt == IF n < 0 \/ pos + n > Len(p) THEN Len(p) - pos ELSE n
    IN  SubSeq(p, pos + 1, pos + cnt)

(***************************************************************************)
(* PathGrammar.                                                            *)
(***************************************************************************)
IsBlend(c) == c = "-" \/ c = "~" \/ c = "+" \/ c = "="

IsImage(p) ==
    IF Len(p) < 4 THEN FALSE
    ELSE LET ext == Substr(p, Len(p) - 4, -1)
         IN  \/ ext = <<".", "p", "n", "g">>
             \/ ext = <<".", "j", "p", "g">>
             \/ ext = <<".", "P", "N", "G">>
             \/ ext = <<".", "J", "P", "G">>

Is2x(p) ==
    IF Len(p) < 7 THEN FALSE
    ELSE LET pos == Len(p) - 7
         IN  p[pos + 1] = "@" /\ p[pos + 2] = "2" /\ p[pos + 3] = "x"

\* The loop "while(--pos) if(path[pos] is no digit) break;": the position
\* it stops at, and whether it read outside the string.
RECURSIVE SkipNumbers(_, _, _, _)
SkipNumbers(p, pos, g, oob) ==
    LET q == pos - 1
    IN  IF q = 0 THEN [pos |-> q, oob |-> oob]
        ELSE IF ~IsDigit(CharAt(p, q, g))
             THEN [pos |-> q, oob |-> oob \/ OutOfRange(p, q)]
             ELSE SkipNumbers(p, q, g, oob \/ OutOfRange(p, q))

\* NameEnd as it would be if it never looked for a frame index.
NameEndAlwaysEnd(p, g) ==
    [val |-> Len(p) - (IF Is2x(p) THEN 7 ELSE 4), oob |-> FALSE, wrapped |-> FALSE]

\* NameEnd: [val: the index returned, oob: a character outside the string
\* was read, wrapped: the subtraction went below zero].
NameEnd(p, g) ==
    LET end == Len(p) - (IF Is2x(p) THEN 7 ELSE 4)
    IN  IF end = 0 THEN [val |-> 0, oob |-> FALSE, wrapped |-> FALSE]
        ELSE LET s == SkipNumbers(p, end, g, FALSE)
                 c == CharAt(p, s.pos, g)
             IN  [val     |-> IF IsBlend(c) THEN s.pos ELSE end,
                  oob     |-> s.oob \/ OutOfRange(p, s.pos),
                  wrapped |-> end < 0]

\* ImageSet::Name(path)
NameOf(p, g) ==
    LET e == NameEnd(p, g)
    IN  [val |-> Substr(p, 0, e.val), oob |-> e.oob, wrapped |-> e.wrapped]

\* The loop "for(++i; path[i] is a digit; ++i) frame = frame * 10 + digit".
RECURSIVE ParseDigits(_, _, _, _, _)
ParseDigits(p, i, g, frame, oob) ==
    LET c == CharAt(p, i, g)
        o == oob \/ OutOfRange(p, i)
    IN  IF IsDigit(c) THEN ParseDigits(p, i + 1, g, frame * 10 + DigitVal(c), o)
        ELSE [val |-> frame, oob |-> o]

FrameIndex(p, g) ==
    LET e == NameEnd(p, g)
        i == e.val
        o == e.oob \/ OutOfRange(p, i)
    IN  IF ~IsBlend(CharAt(p, i, g))
        THEN [val |-> 0, oob |-> o, wrapped |-> e.wrapped]
        ELSE LET d == ParseDigits(p, i + 1, g, 0, o)
             IN  [val |-> d.val, oob |-> d.oob, wrapped |-> e.wrapped]

\* ImageSet::IsMasked
HasPrefix(p, pre) == Len(p) >= Len(pre) /\ SubSeq(p, 1, Len(pre)) = pre

IsMasked(p) ==
    \/ HasPrefix(p, <<"s", "h", "i", "p", "/">>)
    \/ HasPrefix(p, <<"a", "s", "t", "e", "r", "o", "i", "d", "/">>)

(***************************************************************************)
(* The path functions called on every path of PathSet.                     *)
(***************************************************************************)
NoCall == [fn |-> "none", val |-> FALSE, oob |-> FALSE, wrapped |-> FALSE,
           crashed |-> FALSE]

\* The result of a call that read outside the string with the read
\* faulting is no value at all: val is then what the call would have
\* returned had the read found "?".
Outcome(fn, r, g) ==
    [fn |-> fn, val |-> r.val, oob |-> r.oob, wrapped |-> r.wrapped,
     crashed |-> r.oob /\ g = "crash"]

CallIsImage ==
    /\ ret' = [fn |-> "IsImage", val |-> IsImage(path), oob |-> FALSE,
               wrapped |-> FALSE, crashed |-> FALSE]
    /\ UNCHANGED <<path, imageSetVars>>

CallIs2x ==
    /\ ret' = [fn |-> "Is2x", val |-> Is2x(path), oob |-> FALSE,
               wrapped |-> FALSE, crashed |-> FALSE]
    /\ UNCHANGED <<path, imageSetVars>>

CallName ==
    /\ \E g \in Garbage : ret' = Outcome("Name", NameOf(path, g), g)
    /\ UNCHANGED <<path, imageSetVars>>

CallFrameIndex ==
    /\ \E g \in Garbage : ret' = Outcome("FrameIndex", FrameIndex(path, g), g)
    /\ UNCHANGED <<path, imageSetVars>>

\* An ImageBuffer of n frames that holds no pixels and has no size yet.
BlankBuffer(n) ==
    [frames |-> n, width |-> 0, height |-> 0, pixels |-> [k \in 1..n |-> "blank"]]

\* The ImageSet right after its constructor, ImageSet(n), and a Sprite
\* that nothing was uploaded to.
InitImageSet(n) ==
    /\ name = n
    /\ paths = <<<<>>, <<>>>>
    /\ buffer = <<BlankBuffer(0), BlankBuffer(0)>>
    /\ masks = <<>>
    /\ distances = <<>>
    /\ sprite = [frames |-> <<BlankBuffer(0), BlankBuffer(0)>>, masks |-> <<>>,
                 distances |-> <<>>]
    /\ reads = <<>>
    /\ cerr = <<>>
    /\ cycle = "new"

InitPath ==
    /\ path \in PathSet
    /\ ret = NoCall
    /\ InitImageSet(<<>>)

NextPath == CallIsImage \/ CallIs2x \/ CallName \/ CallFrameIndex

SpecPath == InitPath /\ [][NextPath]_vars

(***************************************************************************)
(* The file-name grammar <name>[<blend><digits>]['@2x']<ext>, stated       *)
(* without the code's scans: the shape the results are compared with.      *)
(***************************************************************************)
\* The path without its last four characters and without the @2x before them.
HasMarker(p) == Len(p) >= 7 /\ SubSeq(p, Len(p) - 6, Len(p) - 4) = Mark2x

StemOf(p) == SubSeq(p, 1, Len(p) - (IF HasMarker(p) THEN 7 ELSE 4))

ExtOf(p) == SubSeq(p, Len(p) - 3, Len(p))

\* The length of the longest run of digits that ends s.
DigitRun(s) ==
    CHOOSE k \in 0..Len(s) :
        /\ \A j \in (Len(s) - k + 1)..Len(s) : IsDigit(s[j])
        /\ k = Len(s) \/ ~IsDigit(s[Len(s) - k])

\* Whether one of the four blend markers stands right before that run.
HasFrameSuffix(s) == DigitRun(s) < Len(s) /\ IsBlend(s[Len(s) - DigitRun(s)])

GrammarName(p) ==
    LET s == StemOf(p)
    IN  IF HasFrameSuffix(s) THEN SubSeq(s, 1, Len(s) - DigitRun(s) - 1) ELSE s

RECURSIVE DecimalValue(_)
DecimalValue(ds) ==
    IF ds = <<>> THEN 0
    ELSE 10 * DecimalValue(SubSeq(ds, 1, Len(ds) - 1)) + DigitVal(ds[Len(ds)])

GrammarFrame(p) ==
    LET s == StemOf(p)
    IN  IF HasFrameSuffix(s)
        THEN DecimalValue(SubSeq(s, Len(s) - DigitRun(s) + 1, Len(s)))
        ELSE 0

\* <blend><digits>, or nothing.
IsFrameSuffix(u) ==
    u = <<>> \/ (IsBlend(u[1]) /\ \A j \in 2..Len(u) : IsDigit(u[j]))

\* The path with @2x put in before its extension.
Twin2x(p) == SubSeq(p, 1, Len(p) - 4) \o Mark2x \o ExtOf(p)

\* C1: for every path IsImage accepts, Name(p) is the name part of
\* <name>[<blend><digits>]['@2x']<ext>, what follows the name is a frame
\* suffix (or nothing), then @2x iff Is2x(p), then the extension, so the
\* parts put together give p again; FrameIndex(p) is the base-10 value of
\* the digits when a blend marker stands before the trailing digit run and
\* 0 when the digits belong to the name; and a path without @2x and the
\* same path with @2x have the same Name and FrameIndex.
PathDecomposition ==
    (IsImage(path) /\ ret.fn # "none") =>
        /\ ~ret.oob /\ ~ret.wrapped
        /\ ret.fn = "Is2x" => (ret.val <=> HasMarker(path))
        /\ ret.fn = "Name" =>
              /\ ret.val = GrammarName(path)
              /\ \E u \in {SubSeq(path, Len(ret.val) + 1, k) : k \in Len(ret.val)..Len(path)} :
                    /\ IsFrameSuffix(u)
                    /\ ret.val \o u \o (IF Is2x(path) THEN Mark2x ELSE <<>>)
                          \o ExtOf(path) = path
                    /\ FrameIndex(path, "?").val =
                          (IF u = <<>> THEN 0 ELSE DecimalValue(Tail(u)))
              /\ ~Is2x(path) =>
                    /\ Is2x(Twin2x(path))
                    /\ NameOf(Twin2x(path), "?").val = ret.val
        /\ ret.fn = "FrameIndex" =>
              /\ ret.val = GrammarFrame(path)
              /\ ~Is2x(path) => FrameIndex(Twin2x(path), "?").val = ret.val

\* Witness of C1: FrameIndex has returned 7 for an accepted @2x path in which
\* a one-character name, a blend marker and the digit stand before the @2x.
PathDecompositionWitness ==
    /\ ret.fn = "FrameIndex" /\ IsImage(path) /\ Is2x(path)
    /\ ret.val = 7
    /\ Len(GrammarName(path)) = 1

\* C2: on every path, the empty path and the paths shorter than four
\* characters included, no path function reads a character outside
\* [0, length) or computes a wrapped boundary, and on those short paths
\* (and on '@2x' followed by an extension) the results are false, the empty
\* name and frame index 0.
ShortPathsSafe ==
    ret.fn # "none" =>
        /\ ~ret.oob /\ ~ret.wrapped /\ ~ret.crashed
        /\ (Len(path) < 4 \/ (Len(path) = 7 /\ HasMarker(path))) =>
              /\ ret.fn = "IsImage" => (Len(path) < 4 => ret.val = FALSE)
              /\ ret.fn = "Is2x" => (Len(path) < 4 => ret.val = FALSE)
              /\ ret.fn = "Name" => ret.val = <<>>
              /\ ret.fn = "FrameIndex" => ret.val = 0

(***************************************************************************)
(* FrameTable: ImageSet::Add and ImageSet::Check.                          *)
(***************************************************************************)
\* Highest frame index of the paths added where the loader runs too.
MaxFrame == 1
\* Highest frame index of the paths added where only Add and Check run.
MaxTableFrame == 3

\* The sprite names: one of a masked category, one of an unmasked one.
Names == {<<"s", "h", "i", "p", "/", "a">>, <<"l", "a", "n", "d", "/", "a">>}

\* The numbered image files of sprite n with frame indices up to maxFrame,
\* n-<f>.png and n-<f>@2x.png, and the files without a number, n.png and
\* n@2x.png.
FilesOf(n, maxFrame) ==
    {n \o <<"-", Digits[f + 1]>> \o m \o <<".", "p", "n", "g">> :
        f \in 0..maxFrame, m \in {<<>>, Mark2x}}

PlainFilesOf(n) == {n \o m \o <<".", "p", "n", "g">> : m \in {<<>>, Mark2x}}

\* vector<string>::resize(n) where n is larger than the size.
Grow(v, n) == v \o [k \in 1..(n - Len(v)) |-> <<>>]

\* paths[is2x] after Add(path); the result is <<paths[0], paths[1]>>.
Added(ps, p) ==
    LET is2x  == IF Is2x(p) THEN 2 ELSE 1
        frame == FrameIndex(p, "?").val
        sized == IF Len(ps[is2x]) <= frame THEN Grow(ps[is2x], frame + 1)
                 ELSE ps[is2x]
    IN  [ps EXCEPT ![is2x] = [sized EXCEPT ![frame + 1] = p]]

\* The place in the cycle after one more Add.
AfterAdd(c) == IF c \in {"new", "uploaded"} THEN c ELSE "mixed"

AddPath(p) ==
    /\ paths' = Added(paths, p)
    /\ cycle' = AfterAdd(cycle)
    /\ UNCHANGED <<path, ret, name, buffer, masks, distances, sprite, reads, cerr>>

Add == \E p \in FilesOf(name, MaxFrame) : AddPath(p)

AddToTable == \E p \in FilesOf(name, MaxTableFrame) \cup PlainFilesOf(name) : AddPath(p)

\* The lines of the loop of Check from index i on.
RECURSIVE MissingLines(_, _)
MissingLines(ps, i) ==
    IF ~(i < Len(ps[1])) THEN <<>>
    ELSE (IF ps[1][i + 1] = <<>> THEN <<[kind |-> "missing", n |-> i]>> ELSE <<>>)
         \o (IF ps[2] # <<>> /\ (i >= Len(ps[2]) \/ ps[2][i + 1] = <<>>)
             THEN <<[kind |-> "missing2x", n |-> i]>> ELSE <<>>)
         \o MissingLines(ps, i + 1)

\* CheckLines as it would be with >= for > in the comparison of the sizes.
CheckLinesLoose(ps) ==
    (IF Len(ps[2]) >= Len(ps[1])
     THEN <<[kind |-> "extra", n |-> Len(ps[2]) - Len(ps[1])]>> ELSE <<>>)
    \o MissingLines(ps, 0)

\* Everything Check writes to std::cerr, in order.
CheckLines(ps) ==
    (IF Len(ps[2]) > Len(ps[1])
     THEN <<[kind |-> "extra", n |-> Len(ps[2]) - Len(ps[1])]>> ELSE <<>>)
    \o MissingLines(ps, 0)

Check ==
    /\ cerr' = CheckLines(paths)
    /\ UNCHANGED <<path, ret, name, paths, buffer, masks, distances, sprite, reads, cycle>>

InitTable ==
    /\ path = <<>>
    /\ ret = NoCall
    /\ InitImageSet(<<"s", "h", "i", "p", "/", "a">>)

NextTable == AddToTable \/ Check

SpecTable == InitTable /\ [][NextTable]_vars

\* How many times line l stands in the output out.
Count(out, l) == Cardinality({j \in DOMAIN out : out[j] = l})

\* Whether slot i of the path sequence v is absent or empty.
NoPathAt(v, i) == i >= Len(v) \/ v[i + 1] = <<>>

\* C7: Check writes exactly: one excess-frame line carrying the count
\* (Double length - Standard length) iff the Double sequence is longer; one
\* 'missing frame i' line for each Standard index i whose slot is empty and
\* for no other i; and, only when the Double sequence is non-empty, one
\* 'missing @2x frame i' line for each Standard index i whose Double slot
\* is absent or empty.  It changes nothing else.
CheckReportsExactly ==
    [][Check =>
        /\ UNCHANGED <<name, paths, buffer, masks, distances, sprite>>
        /\ LET std == paths[1]
               dbl == paths[2]
               out == cerr'
           IN  /\ \A j \in DOMAIN out :
                     \/ /\ out[j].kind = "extra"
                        /\ out[j].n = Len(dbl) - Len(std)
                     \/ /\ out[j].kind \in {"missing", "missing2x"}
                        /\ out[j].n \in 0..(Len(std) - 1)
               /\ Count(out, [kind |-> "extra", n |-> Len(dbl) - Len(std)])
                     = (IF Len(dbl) > Len(std) THEN 1 ELSE 0)
               /\ \A i \in 0..(Len(std) - 1) :
                     /\ Count(out, [kind |-> "missing", n |-> i])
                           = (IF std[i + 1] = <<>> THEN 1 ELSE 0)
                     /\ Count(out, [kind |-> "missing2x", n |-> i])
                           = (IF dbl # <<>> /\ NoPathAt(dbl, i) THEN 1 ELSE 0)
    ]_vars

\* Witness of C7: Standard {0,1,2} and Double {0,1,2,3} all populated, and
\* Check has written the one excess-frame line, with count 1, and no other.
CheckReportsWitness ==
    /\ Len(paths[1]) = 3 /\ Len(paths[2]) = 4
    /\ \A i \in 0..2 : ~NoPathAt(paths[1], i)
    /\ \A i \in 0..3 : ~NoPathAt(paths[2], i)
    /\ cerr = <<[kind |-> "extra", n |-> 1]>>

(***************************************************************************)
(* DistanceFieldGenerator: GenerateDistances.                              *)
(*                                                                         *)
(* A Point is <<x, y>>.  The outline points are given in pixels; the       *)
(* computation is carried out in half pixels (every coordinate doubled),   *)
(* where center = (.5 * width, .5 * height) is integral.  A squared        *)
(* distance is the exact fraction <<numerator, denominator>>, and          *)
(* <<1, 0>> is +infinity; the rounding of float and double is left out.    *)
(***************************************************************************)
Infinity == <<1, 0>>

\* a < b for two such fractions.
Less(a, b) == a[1] * b[2] < b[1] * a[2]

Dot(a, b) == a[1] * b[1] + a[2] * b[2]

Minus(a, b) == <<a[1] - b[1], a[2] - b[2]>>

Twice(a) == <<2 * a[1], 2 * a[2]>>

\* The body of the loop over the outline for one segment prev -> cur:
\* closestSquared afterwards.  The points are in half pixels, so a squared
\* length is four times the one of the code.
SegmentStep(prev, cur, p, closest) ==
    LET segment == Minus(cur, prev)
        dist    == Minus(p, prev)
        dot     == Dot(dist, segment)
        len2    == Dot(segment, segment)
    IN  \* t = dot / len2 is NaN when the segment has no length (0 / 0),
        \* and NaN < 1 is false.
        IF len2 = 0 \/ ~(dot < len2) THEN closest
        ELSE LET distSquared ==
                     IF dot > 0
                     THEN <<Dot(dist, dist) * len2 - dot * dot, 4 * len2>>
                     ELSE <<Dot(dist, dist), 4>>
             IN  IF Less(distSquared, closest) THEN distSquared ELSE closest

\* The loop "for(const Point &cur : mask.Outline())" from element k on.
RECURSIVE ClosestLoop(_, _, _, _, _)
ClosestLoop(outline, k, prev, p, closest) ==
    IF k > Len(outline) THEN closest
    ELSE ClosestLoop(outline, k + 1, outline[k], p,
                     SegmentStep(prev, outline[k], p, closest))

\* closestSquared for the point p (in half pixels) and a non-empty outline.
ClosestSquared(outline, p) ==
    LET half == [k \in DOMAIN outline |-> Twice(outline[k])]
    IN  ClosestLoop(half, 1, half[Len(half)], p, Infinity)

\* Mask::Contains(p, Angle()): whether p lies inside the outline, by the
\* even-odd rule on a ray from p towards +x.
Crosses(a, b, p) ==
    /\ (a[2] > p[2]) # (b[2] > p[2])
    /\ LET dy == b[2] - a[2]
           lhs == (p[1] - a[1]) * dy
           rhs == (p[2] - a[2]) * (b[1] - a[1])
       IN  IF dy > 0 THEN lhs < rhs ELSE lhs > rhs

Contains(outline, p) ==
    LET half == [k \in DOMAIN outline |-> Twice(outline[k])]
        n == Len(half)
        crossings == {k \in 1..n : Crosses(half[IF k = 1 THEN n ELSE k - 1], half[k], p)}
    IN  Cardinality(crossings) % 2 = 1

\* The float that distances.assign fills the vector with.
InfinityEntry == [frame |-> -1, x |-> -1, y |-> -1, sq |-> Infinity, neg |-> FALSE]

\* The float written for pixel (x, y) of the mask of frame k, as what it is
\* computed from: copysign(sqrt(sq), neg ? -1 : 1) * normalize.
Entry(outline, k, x, y, width, height) ==
    LET p == <<2 * x - width, 2 * y - height>>
    IN  [frame |-> k, x |-> x, y |-> y,
         sq |-> ClosestSquared(outline, p), neg |-> Contains(outline, p)]

\* Whether an entry is the float +infinity.
IsPlusInfinity(e) == e.sq[2] = 0 /\ ~e.neg

\* SkipSlot as it would be if the empty outline left ptr where it is.
SkipSlotNot(ptr, width, height) == ptr

\* "ptr += width * height" of the branch for an empty outline.
SkipSlot(ptr, width, height) == ptr + width * height

\* The loop "for(const Mask &mask : masks)" from mask k on, with ptr the
\* offset of ptr from &distances[0].  The loops over y and x write
\* width * height floats through *ptr++, row after row.
RECURSIVE GenerateFrom(_, _, _, _, _, _)
GenerateFrom(ms, k, ptr, d, width, height) ==
    IF k > Len(ms) THEN d
    ELSE IF ms[k] = <<>>
         THEN GenerateFrom(ms, k + 1, SkipSlot(ptr, width, height), d, width, height)
         ELSE GenerateFrom(ms, k + 1, ptr + width * height,
                  [j \in DOMAIN d |->
                      IF ptr < j /\ j <= ptr + width * height
                      THEN Entry(ms[k], k - 1, (j - ptr - 1) % width,
                                 (j - ptr - 1) \div width, width, height)
                      ELSE d[j]],
                  width, height)

\* GenerateDistances as it would be without the halving of the size.
GenerateDistancesFullSize(image, ms, ds) ==
    IF ms = <<>> THEN ds
    ELSE GenerateFrom(ms, 1, 0,
            [j \in 1..(image.width * image.height * Len(ms)) |-> InfinityEntry],
            image.width, image.height)

\* GenerateDistances(image, masks, distances): distances afterwards.
GenerateDistances(image, ms, ds) ==
    IF ms = <<>> THEN ds
    ELSE LET width  == image.width \div 2
             height == image.height \div 2
         IN  GenerateFrom(ms, 1, 0,
                [j \in 1..(width * height * Len(ms)) |-> InfinityEntry],
                width, height)

(***************************************************************************)
(* GenerateDistances called on every image size and mask vector in the     *)
(* bounds.                                                                 *)
(***************************************************************************)
\* Largest width and height of an image.
MaxWidth == 5
MaxHeight == 5
\* Largest number of masks handed to GenerateDistances on its own.
MaxMasks == 2

\* Outlines, in pixels: none, a square around the centre, a triangle, one
\* with a vertex repeated, one that is a single point.
SquareOutline == <<<<-1, -1>>, <<1, -1>>, <<1, 1>>, <<-1, 1>>>>
TriangleOutline == <<<<0, -2>>, <<2, 1>>, <<-1, 1>>>>
RepeatedOutline == <<<<-1, 0>>, <<-1, 0>>, <<1, 0>>, <<0, 1>>>>
PointOutline == <<<<0, 0>>>>

Outlines == {<<>>, SquareOutline, TriangleOutline, RepeatedOutline, PointOutline}

InitDist ==
    /\ path = <<>>
    /\ ret = NoCall
    /\ name = <<"s", "h", "i", "p", "/", "a">>
    /\ paths = <<<<>>, <<>>>>
    /\ \E n \in 0..MaxMasks :
          /\ masks \in [1..n -> Outlines]
          /\ \E w \in 0..MaxWidth, h \in 0..MaxHeight :
                buffer = <<[BlankBuffer(n) EXCEPT !.width = w, !.height = h],
                           BlankBuffer(n)>>
    /\ distances \in {<<>>, <<InfinityEntry>>}
    /\ sprite = [frames |-> <<BlankBuffer(0), BlankBuffer(0)>>, masks |-> <<>>,
                 distances |-> <<>>]
    /\ reads = <<>>
    /\ cerr = <<>>
    /\ cycle = "new"

Generate ==
    /\ cycle = "new"
    /\ distances' = GenerateDistances(buffer[1], masks, distances)
    /\ cycle' = "generated"
    /\ UNCHANGED <<path, ret, name, paths, buffer, masks, sprite, reads, cerr>>

NextDist == Generate

SpecDist == InitDist /\ [][NextDist]_vars

\* The squared distance, in pixels, from p to the nearest point of the
\* segment a -> b (p, a and b in half pixels).
SegmentDistance(a, b, p) ==
    LET segment == Minus(b, a)
        dist    == Minus(p, a)
        dot     == Dot(dist, segment)
        len2    == Dot(segment, segment)
    IN  IF len2 = 0 \/ dot <= 0 THEN <<Dot(dist, dist), 4>>
        ELSE IF dot >= len2 THEN <<Dot(Minus(p, b), Minus(p, b)), 4>>
        ELSE <<Dot(dist, dist) * len2 - dot * dot, 4 * len2>>

\* The least of these over the segments of the closed outline.
OutlineDistance(outline, p) ==
    LET half == [k \in DOMAIN outline |-> Twice(outline[k])]
        n == Len(half)
        all == {SegmentDistance(half[IF k = 1 THEN n ELSE k - 1], half[k], p) : k \in 1..n}
    IN  CHOOSE m \in all : \A o \in all : ~Less(o, m)

SameFraction(a, b) == a[1] * b[2] = b[1] * a[2] /\ (a[2] = 0 <=> b[2] = 0)

\* The point, in half pixels, that entry e was computed for.
PixelOf(e, image) ==
    <<2 * e.x - (image.width \div 2), 2 * e.y - (image.height \div 2)>>

\* C5: after GenerateDistances, every entry of the slot of a frame whose
\* outline is empty is +infinity, and the entries of a frame with an
\* outline are those computed for that frame, pixel after pixel, at the
\* indices k*w*h .. (k+1)*w*h - 1 of its own slot.
EmptyOutlineSlotInfinite ==
    (cycle = "generated" /\ masks # <<>>) =>
        LET w == buffer[1].width \div 2
            h == buffer[1].height \div 2
        IN  /\ Len(distances) = w * h * Len(masks)
            /\ \A j \in 1..Len(distances) :
                  LET k == (j - 1) \div (w * h)
                      r == (j - 1) % (w * h)
                  IN  IF masks[k + 1] = <<>>
                      THEN distances[j] = InfinityEntry /\ IsPlusInfinity(distances[j])
                      ELSE /\ distances[j].frame = k
                           /\ distances[j].x = r % w
                           /\ distances[j].y = r \div w

\* Witness of C5: a frame without outline followed by a frame with one:
\* the first slot is +infinity, the second holds the values of frame 1.
EmptyOutlineSlotWitness ==
    /\ cycle = "generated"
    /\ Len(masks) = 2 /\ masks[1] = <<>> /\ masks[2] = SquareOutline
    /\ buffer[1].width = 4 /\ buffer[1].height = 5
    /\ Len(distances) = 8
    /\ IsPlusInfinity(distances[4])
    /\ distances[5].frame = 1 /\ ~IsPlusInfinity(distances[5])

\* C9: for every non-empty outline and every pixel, the least squared
\* distance the loop keeps is the least, over the segments of the closed
\* outline, of the squared distance to the nearest point of the segment;
\* at least one segment contributes.
EveryEdgeCovered ==
    cycle = "generated" =>
        \A j \in 1..Len(distances) :
            distances[j].frame >= 0 =>
                LET e == distances[j]
                    outline == masks[e.frame + 1]
                IN  /\ e.sq # Infinity
                    /\ SameFraction(e.sq, OutlineDistance(outline, PixelOf(e, buffer[1])))

\* The same for the outlines that have two different points.
HasLength(outline) == \E a, b \in DOMAIN outline : outline[a] # outline[b]

EveryEdgeCoveredUnlessPoint ==
    cycle = "generated" =>
        \A j \in 1..Len(distances) :
            (distances[j].frame >= 0 /\ HasLength(masks[distances[j].frame + 1])) =>
                LET e == distances[j]
                    outline == masks[e.frame + 1]
                IN  /\ e.sq # Infinity
                    /\ SameFraction(e.sq, OutlineDistance(outline, PixelOf(e, buffer[1])))

(***************************************************************************)
(* Loader and AssetHandoff: ImageSet::Load and ImageSet::Upload, with the  *)
(* collaborators they call: ImageBuffer, Mask::Create and the Sprite.      *)
(***************************************************************************)
\* Width and height of every image file.
FrameWidth == 2
FrameHeight == 3

\* What a file decodes to: an image with opaque pixels.
ImageKinds == {"solid"}

\* What ImageBuffer::Read(p, i) may do: fail, or decode one of the images.
\* There is no file to decode for the empty path of a missing frame.
ReadOutcomes(p) == IF p = <<>> THEN {"fail"} ELSE {"fail"} \cup ImageKinds

\* ImageBuffer::Clear(n): n frames, no pixels yet, the size unknown.
Cleared(n) == BlankBuffer(n)

\* The buffer after Read(p, i) with outcome o: a failure leaves it as it
\* was; the first success sets the size, and frame i gets the pixels.
AfterRead(b, i, o) ==
    IF o = "fail" THEN b
    ELSE [b EXCEPT !.width = FrameWidth, !.height = FrameHeight,
                   !.pixels = [@ EXCEPT ![i + 1] = o]]

\* The outline Mask::Create(buffer, i) traces around the opaque pixels.
Created(o) == IF o = "solid" THEN SquareOutline ELSE <<>>

\* vector<Mask>::resize(n): the first n masks kept, new ones empty.
Resized(ms, n) == [k \in 1..n |-> IF k <= Len(ms) THEN ms[k] ELSE <<>>]

\* DoubleCount as it would be without "i < frames".
DoubleCountAll(ps) == Len(ps[2])

\* The bound of the loop over the @2x paths: i < frames && i < paths[1].size().
DoubleCount(ps) == IF Len(ps[1]) < Len(ps[2]) THEN Len(ps[1]) ELSE Len(ps[2])

\* The loop over the 1x paths from frame i on: <<buffer[0], masks>> after it.
RECURSIVE LoadStandard(_, _, _, _, _, _)
LoadStandard(ps, oS, makeMasks, i, b, ms) ==
    IF ~(i < Len(ps[1])) THEN <<b, ms>>
    ELSE LoadStandard(ps, oS, makeMasks, i + 1, AfterRead(b, i, oS[i + 1]),
             IF oS[i + 1] # "fail" /\ makeMasks
             THEN [ms EXCEPT ![i + 1] = Created(oS[i + 1])]
             ELSE ms)

\* The loop over the @2x paths from frame i on: buffer[1] after it.
RECURSIVE LoadDouble(_, _, _, _)
LoadDouble(ps, oD, i, b) ==
    IF ~(i < DoubleCount(ps)) THEN b
    ELSE LoadDouble(ps, oD, i + 1, AfterRead(b, i, oD[i + 1]))

\* The calls of Read in the order Load makes them, then the distance pass.
ReadLog(ps, oS, oD) ==
    [i \in 1..Len(ps[1]) |->
        [what |-> "Read", is2x |-> FALSE, frame |-> i - 1, file |-> ps[1][i], got |-> oS[i]]]
    \o [i \in 1..DoubleCount(ps) |->
        [what |-> "Read", is2x |-> TRUE, frame |-> i - 1, file |-> ps[2][i], got |-> oD[i]]]
    \o <<[what |-> "GenerateDistances", is2x |-> FALSE, frame |-> 0, file |-> <<>>,
          got |-> "done"]>>

\* Load() on the sprite n with the path table ps, the masks ms and the
\* distances ds, where the reads have the outcomes oS (1x) and oD (@2x).
Loaded(n, ps, ms, ds, oS, oD) ==
    LET frames    == Len(ps[1])
        makeMasks == IsMasked(n)
        sized     == IF makeMasks THEN Resized(ms, frames) ELSE ms
        std       == LoadStandard(ps, oS, makeMasks, 0, Cleared(frames), sized)
        dbl       == LoadDouble(ps, oD, 0, Cleared(frames))
    IN  [buffer    |-> <<std[1], dbl>>,
         masks     |-> std[2],
         distances |-> GenerateDistances(std[1], std[2], ds),
         reads     |-> ReadLog(ps, oS, oD)]

\* The outcomes the reads of one Load may have.
StandardOutcomes(ps) ==
    {o \in [1..Len(ps[1]) -> {"fail"} \cup ImageKinds] :
        \A i \in DOMAIN o : o[i] \in ReadOutcomes(ps[1][i])}

DoubleOutcomes(ps) ==
    {o \in [1..DoubleCount(ps) -> {"fail"} \cup ImageKinds] :
        \A i \in DOMAIN o : o[i] \in ReadOutcomes(ps[2][i])}

Load ==
    /\ \E oS \in StandardOutcomes(paths), oD \in DoubleOutcomes(paths) :
          \E l \in {Loaded(name, paths, masks, distances, oS, oD)} :
              /\ buffer' = l.buffer
              /\ masks' = l.masks
              /\ distances' = l.distances
              /\ reads' = l.reads
    /\ cycle' = CASE cycle = "new" -> "loaded1"
                  [] cycle = "uploaded" -> "loaded2"
                  [] OTHER -> "reloaded"
    /\ UNCHANGED <<path, ret, name, paths, sprite, cerr>>

\* Sprite::AddFrames(buffer, is2x): "The given buffer will be cleared
\* afterwards."
AfterAddFrames(b) == Cleared(0)

\* Sprite::AddMasks(masks): "The given vector will be cleared."
AfterAddMasks(ms) == <<>>

\* Sprite::AddMaskTexture(distances): the distance field is released too.
AfterAddMaskTexture(ds) == <<>>

\* Upload as it would be without the call of AddMasks.
UploadKeepsMasks ==
    /\ sprite' = [frames |-> buffer, masks |-> sprite.masks, distances |-> distances]
    /\ buffer' = <<AfterAddFrames(buffer[1]), AfterAddFrames(buffer[2])>>
    /\ distances' = AfterAddMaskTexture(distances)
    /\ reads' = <<>>
    /\ cycle' = "uploaded"
    /\ UNCHANGED <<path, ret, name, paths, masks, cerr>>

\* Upload(sprite): the Sprite takes the two buffers, the masks and the
\* distances.
Upload ==
    /\ sprite' = [frames |-> buffer, masks |-> masks, distances |-> distances]
    /\ buffer' = <<AfterAddFrames(buffer[1]), AfterAddFrames(buffer[2])>>
    /\ masks' = AfterAddMasks(masks)
    /\ distances' = AfterAddMaskTexture(distances)
    /\ reads' = <<>>
    /\ cycle' = "uploaded"
    /\ UNCHANGED <<path, ret, name, paths, cerr>>

Init ==
    /\ path = <<>>
    /\ ret = NoCall
    /\ \E n \in Names : InitImageSet(n)

\* Check writes to std::cerr only and reads the path table only: it runs
\* with Add in SpecTable.
Next == Add \/ Load \/ Upload

Spec == Init /\ [][Next]_vars

(***************************************************************************)
(* What holds of Load and Upload.                                          *)
(***************************************************************************)
\* Load was the last operation: reads is its log and paths what it saw.
AfterLoad == cycle \in {"loaded1", "loaded2", "reloaded"}

\* The outcomes of the reads of the last Load, from its log.
LoggedStandard == [i \in 1..Len(paths[1]) |-> reads[i].got]

LoggedDouble == [i \in 1..(Len(reads) - 1 - Len(paths[1])) |-> reads[Len(paths[1]) + i].got]

\* What Upload hands to the Sprite.
Handed == [frames |-> buffer, masks |-> masks, distances |-> distances]

DoubleReadsBelowFrames ==
    AfterLoad =>
        /\ \A k \in DOMAIN reads :
              (reads[k].what = "Read" /\ reads[k].is2x) =>
                  /\ reads[k].frame < Len(paths[1])
                  /\ reads[k].frame < Len(paths[2])
                  /\ reads[k].file = paths[2][reads[k].frame + 1]
        /\ buffer[1].frames = Len(paths[1]) /\ Len(buffer[1].pixels) = Len(paths[1])
        /\ buffer[2].frames = Len(paths[1]) /\ Len(buffer[2].pixels) = Len(paths[1])

\* Witness of C4: there is an @2x path beyond the single 1x frame, and the
\* @2x file of frame 0 was read and decoded.
DoubleReadsWitness ==
    /\ AfterLoad
    /\ Len(paths[1]) = 1 /\ Len(paths[2]) = 2 /\ paths[2][2] # <<>>
    /\ buffer[2].pixels = <<"solid">>

\* The length (Standard width / 2) * (Standard height / 2) * frameCount.
FieldLength == (buffer[1].width \div 2) * (buffer[1].height \div 2) * Len(paths[1])

\* C6 as claimed: after every Load, masked category or not, the distance
\* field has that length.
DistanceLengthAlways == AfterLoad => Len(distances) = FieldLength

\* C6 as amended: after every Load of a sprite of a masked category the
\* distance field has that length; for any other sprite it is empty.
DistanceLengthWhenMasked ==
    AfterLoad => Len(distances) = (IF IsMasked(name) THEN FieldLength ELSE 0)

\* Witness of C6: two frames of a masked sprite, 2 x 3 pixels: 1 * 1 * 2.
DistanceLengthWitness ==
    /\ AfterLoad /\ IsMasked(name)
    /\ Len(paths[1]) = 2 /\ buffer[1].width = 2 /\ buffer[1].height = 3
    /\ Len(distances) = 2

\* The reads are those of every 1x slot, then of every @2x slot below both
\* counts, then the distance pass.
AttemptsInOrder ==
    LET n == Len(paths[1])
        m == IF Len(paths[2]) < n THEN Len(paths[2]) ELSE n
    IN  /\ Len(reads) = n + m + 1
        /\ \A i \in 1..n :
              /\ reads[i].what = "Read" /\ ~reads[i].is2x
              /\ reads[i].frame = i - 1 /\ reads[i].file = paths[1][i]
        /\ \A i \in 1..m :
              /\ reads[n + i].what = "Read" /\ reads[n + i].is2x
              /\ reads[n + i].frame = i - 1 /\ reads[n + i].file = paths[2][i]
        /\ reads[n + m + 1].what = "GenerateDistances"

\* C8: whatever reads fail, Load reads every 1x slot, then every @2x slot
\* below both counts, then generates the distances; a slot whose read
\* failed has blank pixels and no mask.
FailedSlotsBlank ==
    AfterLoad =>
        /\ AttemptsInOrder
        /\ \A k \in 1..(Len(reads) - 1) :
              reads[k].got = "fail" =>
                  LET i == reads[k].frame + 1
                  IN  IF reads[k].is2x THEN buffer[2].pixels[i] = "blank"
                      ELSE /\ buffer[1].pixels[i] = "blank"
                           /\ i \in DOMAIN masks => masks[i] = <<>>

\* The part of C8 that does hold: the attempts, their order, the pixels.
FailedSlotsBlankPixels ==
    AfterLoad =>
        /\ AttemptsInOrder
        /\ \A k \in 1..(Len(reads) - 1) :
              reads[k].got = "fail" =>
                  buffer[IF reads[k].is2x THEN 2 ELSE 1].pixels[reads[k].frame + 1] = "blank"

\* C10: when a Load has finished, mask slot i holds an outline only if the
\* sprite is of a masked category and that Load decoded 1x frame i, and the
\* distance field has values only for such frames.
MasksOfThisLoadOnly ==
    AfterLoad =>
        /\ \A i \in DOMAIN masks :
              masks[i] # <<>> =>
                  /\ IsMasked(name)
                  /\ i <= Len(paths[1])
                  /\ reads[i].got # "fail"
        /\ \A j \in DOMAIN distances :
              distances[j].frame >= 0 => reads[distances[j].frame + 1].got # "fail"

=============================================================================
